---- MODULE Spec2Model ----
(***************************************************************************)
(* Model of the recording registry and of the capture / playback           *)
(* controller of savantsalesai:                                            *)
(*   src/app/context/RecordingContext.tsx   RecordingProvider              *)
(*   src/app/components/RecordingItem.tsx   playRecording, handleDelete,   *)
(*                                          handleRename, handleAnalyze    *)
(*   src/app/(tabs)/index.tsx               App (lines 324-712)            *)
(*                                                                         *)
(* Spec follows the registry: the provider state, AsyncStorage and the     *)
(* handlers that call the registry.  The capture that a stop request ends  *)
(* is not followed there.  Controller follows App: capture, playback and   *)
(* upload, with the provider already loaded; ControllerFair adds that the  *)
(* network call of an upload returns or throws.  Item follows the history  *)
(* items: playback and deletion, with the provider already loaded.         *)
(*                                                                         *)
(* The provider keeps the React state `recordings`; addRecording,          *)
(* deleteRecording and updateRecording are closures created by a render    *)
(* and read the `recordings` value of that render.  A handler started by   *)
(* a tap holds the closures of the render that was current at the tap      *)
(* (a state update is taken to be rendered before the next tap) and keeps  *)
(* them across its own awaits.                                             *)
(*                                                                         *)
(* AsyncStorage serves its requests one at a time in the order they were   *)
(* issued; the promise continuations run in JavaScript afterwards, in the  *)
(* same order, and taps may be handled in between.  A rejected setItem     *)
(* leaves the stored value as it was.                                      *)
(***************************************************************************)
EXTENDS Integers, Sequences, FiniteSets, TLC

\* ---------------------------------------------------------------- bounds
MaxOps == 2          \* handlers started in one run
MaxStored == 2       \* recordings persisted by earlier sessions
MaxInFlight == 2     \* handlers that have started and not yet returned

\* ------------------------------------------------------- program values
NoValue == [kind |-> "null", text |-> << >>]     \* getItem of a missing key
Corrupt == [kind |-> "corrupt", text |-> << >>]  \* text JSON.parse rejects
Undefined == [undefined |-> TRUE]   \* Array.prototype.find without a match
DefaultTitle == "Recording"  \* `Recording ${new Date().toLocaleString()}`
Titles == {"X", "Y"}         \* trimmed, non-empty titles typed by the user
Durations == {2}             \* seconds read back from getStatusAsync
LOAD == 0                    \* the loadRecordings request of the mount effect

\* variant: the id is built without the clock reading
NewRecordingFixedId(t, d) ==
  [id |-> 0, uri |-> t, duration |-> d, timestamp |-> t, title |-> DefaultTitle]

\* Recording created by stopRecording at clock value t.
NewRecording(t, d) ==
  [id |-> t, uri |-> t, duration |-> d, timestamp |-> t, title |-> DefaultTitle]

\* Recordings left in storage by earlier sessions (ids below the clock).
StoredRecording(n) ==
  [id |-> n, uri |-> n, duration |-> 2, timestamp |-> n, title |-> DefaultTitle]

\* ------------------------------------------------------- pure functions
\* JSON.stringify(recordings): one tuple of field values per entry.
Stringify(s) ==
  [kind |-> "json",
   text |-> [j \in 1..Len(s) |->
      <<s[j].id, s[j].uri, s[j].duration, s[j].timestamp, s[j].title>>]]

\* variant: the title is not read back
ParseNoTitle(b) ==
  [j \in 1..Len(b.text) |->
     [id |-> b.text[j][1], uri |-> b.text[j][2], duration |-> b.text[j][3],
      timestamp |-> b.text[j][4], title |-> DefaultTitle]]

\* JSON.parse(storedRecordings) of a text written by Stringify.
Parse(b) ==
  [j \in 1..Len(b.text) |->
     [id |-> b.text[j][1], uri |-> b.text[j][2], duration |-> b.text[j][3],
      timestamp |-> b.text[j][4], title |-> b.text[j][5]]]

\* recordings.filter(recording => recording.id !== id)
RECURSIVE Filter(_, _)
Filter(s, id) ==
  IF s = << >> THEN << >>
  ELSE IF Head(s).id # id THEN <<Head(s)>> \o Filter(Tail(s), id)
       ELSE Filter(Tail(s), id)

\* { ...recording, ...updates }
Merge(r, u) ==
  [f \in DOMAIN r \cup DOMAIN u |-> IF f \in DOMAIN u THEN u[f] ELSE r[f]]

\* recordings.map(recording => recording.id === id ? {...} : recording)
MapUpdate(s, id, u) ==
  [j \in 1..Len(s) |-> IF s[j].id = id THEN Merge(s[j], u) ELSE s[j]]

\* [...recordings, recording]
AppendRecording(s, r) == Append(s, r)

\* recordings.find(recording => recording.id === id)
RECURSIVE getRecording(_, _)
getRecording(s, id) ==
  IF s = << >> THEN Undefined
  ELSE IF Head(s).id = id THEN Head(s) ELSE getRecording(Tail(s), id)

Ids(s) == {s[j].id : j \in 1..Len(s)}

\* ---------------------------------------------------------------- state
VARIABLES
  recordings,   \* React state of RecordingProvider
  storage,      \* value under STORAGE_KEY: NoValue, Corrupt or a JSON text
  loaded,       \* loadRecordings has returned
  ops,          \* handler invocations that reach the registry, by number
  nOps,         \* handler invocations started so far
  nativeQ,      \* AsyncStorage requests issued and not yet served
  cbQ,          \* served requests whose continuation has not run yet
  clock,        \* Date.now()
  notice,       \* last Alert shown by RecordingItem
  last,         \* the handler that returned last (history)
  clash,        \* two addRecording calls read the same Date.now() (history)
  overlap,      \* a registry call was issued while another call or the
                \* initial load had not returned (history)
  expected      \* the loaded sequence with every successful call applied
                \* to it in the order the calls were issued (history)

rvars ==
  <<recordings, storage, loaded, ops, nOps, nativeQ, cbQ, clock, notice, last,
    clash, overlap, expected>>

\* state of App in src/app/(tabs)/index.tsx and of expo-av behind it
VARIABLES
  recording,              \* useState: the capture handle, 0 for null
  recordedURI,            \* useState: uri of the session's audio, 0 for null
  sound,                  \* useState: the playback handle, 0 for null
  isPlaying,              \* useState
  isSending,              \* useState
  isLoading,              \* useState
  transcription,          \* useState: uri whose transcription is shown, or 0
  analysis,               \* useState: uri whose analysis is shown, or 0
  currentRecordingTitle,  \* useState: a title, NoTitle for null
  params,                 \* useLocalSearchParams().recordingUri, 0 if absent
  captures,               \* Audio.Recording objects prepared and not unloaded
  sounds,                 \* Audio.Sound objects loaded and not unloaded
  playing,                \* loaded sounds that are playing
  tasks,                  \* handler invocations of App that have not returned
  nTaps,                  \* taps and navigations handled so far
  nHandles,               \* expo-av objects created so far
  alert,                  \* last Alert shown by App
  session,                \* capture sessions started so far (history)
  returned,               \* how the App handler that returned last ended
                          \* (history)
  ended,                  \* playback reached the end of the audio and no
                          \* play request was made since (history)
  origin,                 \* the capture session of the handlers that wrote
                          \* the transcription and analysis, the title and
                          \* the tracked sound now displayed (history)
  added                   \* capture handles whose stopRecording has called
                          \* addRecording (history)

cvars ==
  <<recording, recordedURI, sound, isPlaying, isSending, isLoading,
    transcription, analysis, currentRecordingTitle, params, captures, sounds,
    playing, tasks, nTaps, nHandles, alert, session, returned, ended, origin,
    added>>

\* state of the RecordingItem components of the history list and of expo-av
\* behind them
VARIABLES
  itemSound,     \* useState `sound` of each item: a playback handle, 0 for null
  itemPlaying,   \* useState `isPlaying` of each item
  itemSounds,    \* Audio.Sound objects loaded and not unloaded: the item
                 \* that created each, its handle, whether that item is
                 \* still mounted
  itemAudible,   \* handles of the loaded sounds that are playing
  itemTasks,     \* handler invocations of items that have not returned
  nItemTaps      \* taps on items handled so far

ivars ==
  <<itemSound, itemPlaying, itemSounds, itemAudible, itemTasks, nItemTaps>>

vars == <<rvars, cvars, ivars>>

OpIds == 1..MaxOps

NoOp ==
  [kind |-> "none", pc |-> "unused", base |-> << >>, id |-> 0,
   updates |-> << >>, rec |-> << >>, updated |-> << >>]

NoReturn ==
  [kind |-> "none", id |-> 0, updates |-> << >>, rec |-> << >>,
   ok |-> FALSE, promise |-> "none"]

StartClock == MaxStored + 1

InitialStores ==
  {NoValue, Corrupt} \cup
  {Stringify([j \in 1..n |-> StoredRecording(j)]) : n \in 0..MaxStored}

NoTitle == ""            \* currentRecordingTitle null (shown as no title)

\* App right after its first render: the useState initial values, no
\* navigation parameter, no expo-av object, no handler running
Mounted ==
  /\ recording = 0 /\ recordedURI = 0 /\ sound = 0
  /\ isPlaying = FALSE /\ isSending = FALSE /\ isLoading = FALSE
  /\ transcription = 0 /\ analysis = 0
  /\ currentRecordingTitle = NoTitle
  /\ params = 0
  /\ captures = {} /\ sounds = {} /\ playing = {}
  /\ tasks = {} /\ nTaps = 0 /\ nHandles = 0
  /\ alert = "none" /\ session = 0 /\ returned = "none" /\ ended = FALSE
  /\ origin = [text |-> 0, title |-> 0, sound |-> 0]
  /\ added = {}

\* the items right after their first render: no sound, no handler running
Listed ==
  /\ itemSound = [id \in 1..MaxStored |-> 0]
  /\ itemPlaying = [id \in 1..MaxStored |-> FALSE]
  /\ itemSounds = {} /\ itemAudible = {}
  /\ itemTasks = {} /\ nItemTaps = 0

Init ==
  /\ Mounted
  /\ Listed
  /\ recordings = << >>
  /\ storage \in InitialStores
  /\ loaded = FALSE
  /\ ops = [i \in OpIds |-> NoOp]
  /\ nOps = 0
  /\ nativeQ = <<LOAD>>
  /\ cbQ = << >>
  /\ clock = StartClock
  /\ notice = "none"
  /\ last = NoReturn
  /\ clash = FALSE
  /\ overlap = FALSE
  /\ expected = << >>

\* ------------------------------------------------------------- handlers
Rendered == Ids(recordings)          \* items shown by the history FlatList

NewOp(kind, pc, id, updates) ==
  [kind |-> kind, pc |-> pc, base |-> recordings, id |-> id,
   updates |-> updates, rec |-> << >>, updated |-> << >>]

\* next-state sequence computed by the registry call of op o
NextSequence(o) ==
  CASE o.kind = "add"    -> AppendRecording(o.base, o.rec)
    [] o.kind = "delete" -> Filter(o.base, o.id)
    [] o.kind = "update" -> MapUpdate(o.base, o.id, o.updates)

\* the call computes updatedRecordings from the `recordings` of its closure
\* and issues AsyncStorage.setItem
Issued(o) ==
  [o EXCEPT !.pc = "writing", !.updated = NextSequence(o)]

\* a registry call is issued while the initial load or another registry
\* call has not returned yet
Busy == ~loaded \/ \E j \in 1..MaxOps : ops[j].pc = "writing"

\* the call of op o applied to the sequence s instead of its closure's
Apply(o, s) == NextSequence([o EXCEPT !.base = s])

InFlight == {i \in 1..MaxOps : ops[i].pc \in {"invoked", "writing"}}

\* a further handler may start
CanStart == nOps < MaxOps /\ Cardinality(InFlight) < MaxInFlight

\* a handler that has returned holds no closure any more
Finished == [NoOp EXCEPT !.pc = "done"]

\* record of the handler that returned last: the registry call it made, on
\* which id, whether the write succeeded and how the call's promise settled
Returned(o, okFlag, p) ==
  [kind |-> o.kind, id |-> o.id, updates |-> o.updates, rec |-> o.rec,
   ok |-> okFlag, promise |-> p]

\* stopRecording up to its awaits of stopAndUnloadAsync / getStatusAsync
\* (Stop is tapped on some capture in progress)
StopRecordingTap ==
  /\ CanStart
  /\ nOps' = nOps + 1
  /\ ops' = [ops EXCEPT ![nOps + 1] = NewOp("add", "invoked", 0, << >>)]
  /\ UNCHANGED <<recordings, storage, loaded, nativeQ, cbQ, clock, notice, last,
                 clash, overlap, expected>>
  /\ UNCHANGED cvars
  /\ UNCHANGED ivars

\* stopRecording after its awaits: uri is set, addRecording is called with
\* an id and a timestamp read from Date.now()
addRecording(i, d, adv) ==
  /\ ops[i].pc = "invoked" /\ ops[i].kind = "add"
  /\ adv = 0 => clock > StartClock       \* two calls in one millisecond
  /\ clock' = clock + adv
  /\ ops' = [ops EXCEPT ![i] =
               Issued([@ EXCEPT !.id = clock', !.rec = NewRecording(clock', d)])]
  /\ nativeQ' = Append(nativeQ, i)
  /\ clash' = (clash \/ adv = 0)
  /\ overlap' = (overlap \/ Busy)
  /\ UNCHANGED <<recordings, storage, loaded, nOps, cbQ, notice, last, expected>>
  /\ UNCHANGED cvars
  /\ UNCHANGED ivars

\* handleDelete with `sound` null: deleteRecording(recording.id) at once
DeleteCalled(id) ==
  /\ CanStart
  /\ id \in Rendered
  /\ nOps' = nOps + 1
  /\ ops' = [ops EXCEPT ![nOps + 1] =
               Issued(NewOp("delete", "invoked", id, << >>))]
  /\ nativeQ' = Append(nativeQ, nOps + 1)
  /\ overlap' = (overlap \/ Busy)
  /\ UNCHANGED <<recordings, storage, loaded, cbQ, clock, notice, last,
                 clash, expected>>

\* handleDelete with a sound, up to `await sound.unloadAsync()`
DeleteAwaited(id) ==
  /\ CanStart
  /\ id \in Rendered
  /\ nOps' = nOps + 1
  /\ ops' = [ops EXCEPT ![nOps + 1] = NewOp("delete", "invoked", id, << >>)]
  /\ UNCHANGED <<recordings, storage, loaded, nativeQ, cbQ, clock, notice, last,
                 clash, overlap, expected>>

\* handleDelete after sound.unloadAsync(): deleteRecording(recording.id)
DeleteIssued(i) ==
  /\ ops[i].pc = "invoked" /\ ops[i].kind = "delete"
  /\ ops' = [ops EXCEPT ![i] = Issued(@)]
  /\ nativeQ' = Append(nativeQ, i)
  /\ overlap' = (overlap \/ Busy)
  /\ UNCHANGED <<recordings, storage, loaded, nOps, cbQ, clock, notice, last,
                 clash, expected>>

\* handleDelete of an item that holds no sound: deleteRecording at once
HandleDeleteNoSound(id) ==
  /\ DeleteCalled(id)
  /\ UNCHANGED cvars
  /\ UNCHANGED ivars

\* handleDelete of an item that holds a sound: awaits sound.unloadAsync()
HandleDeleteTap(id) ==
  /\ DeleteAwaited(id)
  /\ UNCHANGED cvars
  /\ UNCHANGED ivars

\* handleDelete after sound.unloadAsync() has resolved
deleteRecording(i) ==
  /\ DeleteIssued(i)
  /\ UNCHANGED cvars
  /\ UNCHANGED ivars

\* the await before the registry call throws (or stop yields no uri):
\* the handler's catch logs and the registry is never called
HandlerAbort(i) ==
  /\ ops[i].pc = "invoked"
  /\ ops' = [ops EXCEPT ![i] = Finished]
  /\ last' = Returned(ops[i], FALSE, "none")
  /\ UNCHANGED <<recordings, storage, loaded, nOps, nativeQ, cbQ, clock, notice,
                 clash, overlap, expected>>
  /\ UNCHANGED cvars
  /\ UNCHANGED ivars

\* handleRename with a title that trims to nothing
HandleRenameEmpty(id) ==
  /\ id \in Rendered
  /\ notice # "emptyTitle"
  /\ notice' = "emptyTitle"
  /\ UNCHANGED <<recordings, storage, loaded, ops, nOps, nativeQ, cbQ, clock, last,
                 clash, overlap, expected>>
  /\ UNCHANGED cvars
  /\ UNCHANGED ivars

\* handleRename: updateRecording(recording.id, {title: newTitle.trim()})
HandleRename(id, t) ==
  /\ CanStart
  /\ id \in Rendered
  /\ nOps' = nOps + 1
  /\ ops' = [ops EXCEPT ![nOps + 1] =
               Issued(NewOp("update", "invoked", id, [title |-> t]))]
  /\ nativeQ' = Append(nativeQ, nOps + 1)
  /\ overlap' = (overlap \/ Busy)
  /\ UNCHANGED <<recordings, storage, loaded, cbQ, clock, notice, last,
                 clash, expected>>
  /\ UNCHANGED cvars
  /\ UNCHANGED ivars

\* ---------------------------------------------------------- AsyncStorage
\* variant: only the entry touched last is written, not the sequence
WrittenDelta(okFlag, updated, stored) ==
  IF okFlag
    THEN Stringify(IF updated = << >> THEN << >>
                   ELSE <<updated[Len(updated)]>>)
    ELSE stored

\* AsyncStorage.setItem(STORAGE_KEY, JSON.stringify(updatedRecordings)):
\* the whole sequence replaces the stored value, or the write fails
Written(okFlag, updated, stored) ==
  IF okFlag THEN Stringify(updated) ELSE stored

\* AsyncStorage serves the oldest request; okFlag is whether it succeeds
AsyncStorageServe(okFlag) ==
  /\ nativeQ # << >>
  /\ LET who == Head(nativeQ) IN
       /\ nativeQ' = Tail(nativeQ)
       /\ IF who = LOAD
            THEN /\ cbQ' = Append(cbQ, [who |-> LOAD, ok |-> okFlag,
                                        value |-> storage])
                 /\ UNCHANGED storage
            ELSE /\ cbQ' = Append(cbQ, [who |-> who, ok |-> okFlag,
                                        value |-> NoValue])
                 /\ storage' = Written(okFlag, ops[who].updated, storage)
  /\ UNCHANGED <<recordings, loaded, ops, nOps, clock, notice, last,
                 clash, overlap, expected>>
  /\ UNCHANGED cvars
  /\ UNCHANGED ivars

\* variant: the stored text is used although the read was rejected
LoadedAnyway(c, current) ==
  IF c.value # NoValue /\ c.value # Corrupt THEN Parse(c.value) ELSE current

\* `if (storedRecordings) setRecordings(JSON.parse(storedRecordings))`; a
\* rejected getItem or a JSON.parse error is caught and logged
Loaded(c, current) ==
  IF c.ok /\ c.value # NoValue /\ c.value # Corrupt
    THEN Parse(c.value) ELSE current

\* loadRecordings after `await AsyncStorage.getItem`
LoadContinue ==
  /\ cbQ # << >> /\ Head(cbQ).who = LOAD
  /\ recordings' = Loaded(Head(cbQ), recordings)
  /\ expected' = recordings'
  /\ loaded' = TRUE
  /\ cbQ' = Tail(cbQ)
  /\ UNCHANGED <<storage, ops, nOps, nativeQ, clock, notice, last,
                 clash, overlap>>
  /\ UNCHANGED cvars
  /\ UNCHANGED ivars

\* what the caller of a registry call gets back: the catch of the call
\* logs the write failure and the async function returns normally
Settle(okFlag) == "resolved"

\* variant: the state is set before the write is awaited
CommittedOptimistic(okFlag, updated, current) == updated

\* `await AsyncStorage.setItem(...); setRecordings(updatedRecordings)` in
\* one try block: the state is set only when the write did not throw
Committed(okFlag, updated, current) ==
  IF okFlag THEN updated ELSE current

\* add/delete/updateRecording after `await AsyncStorage.setItem`, followed
\* by the continuation of the handler that awaited the call
CallReturned ==
  /\ cbQ # << >> /\ Head(cbQ).who # LOAD
  /\ LET c == Head(cbQ)
         o == ops[c.who]
         p == Settle(c.ok) IN
       /\ recordings' = Committed(c.ok, o.updated, recordings)
       /\ expected' = IF c.ok THEN Apply(o, expected) ELSE expected
       /\ ops' = [ops EXCEPT ![c.who] = Finished]
       /\ last' = Returned(o, c.ok, p)
       /\ notice' = IF o.kind = "update" /\ p = "rejected"
                      THEN "renameFailed" ELSE notice
  /\ cbQ' = Tail(cbQ)
  /\ UNCHANGED <<storage, loaded, nOps, nativeQ, clock, clash, overlap>>

\* a registry call continues; what it sets is rendered
CallContinue ==
  /\ CallReturned
  /\ UNCHANGED cvars
  /\ UNCHANGED ivars

Next ==
  \/ StopRecordingTap
  \/ \E i \in OpIds, d \in Durations, adv \in {0, 1} : addRecording(i, d, adv)
  \/ \E id \in Rendered : HandleDeleteNoSound(id)
  \/ \E id \in Rendered : HandleDeleteTap(id)
  \/ \E i \in OpIds : deleteRecording(i)
  \/ \E i \in OpIds : HandlerAbort(i)
  \/ \E id \in Rendered : HandleRenameEmpty(id)
  \/ \E id \in Rendered, t \in Titles : HandleRename(id, t)
  \/ \E okFlag \in BOOLEAN : AsyncStorageServe(okFlag)
  \/ LoadContinue
  \/ CallContinue

Spec == Init /\ [][Next]_vars

\* ------------------------------------------- capture / playback controller
\* App of src/app/(tabs)/index.tsx.  Its handlers are closures of a render
\* and read the state values of that render.  The expo-av promises settle
\* in any order; a call on a capture handle that is already unloaded
\* rejects, getStatusAsync of an unloaded sound reports isLoaded false.
MaxTaps == 3         \* taps and navigations handled in one run

\* no response of the endpoint yet
NoResponse ==
  [kind |-> "none", ok |-> FALSE, transcription |-> 0, analysis |-> 0]

\* a handler invocation: its number, its position, the values its closure
\* read (snd, rec, uri), the registry sequence its addRecording closes over,
\* whether the file of an upload is on the device, the response its fetch
\* resolved with, and as history the capture session it was started in and
\* whether it was started after a start request had been denied
NewTask(kind, pc, snd, rec, uri, base) ==
  [n |-> nTaps + 1, kind |-> kind, pc |-> pc, snd |-> snd, rec |-> rec,
   uri |-> uri, base |-> base, file |-> TRUE, resp |-> NoResponse,
   ses |-> session, retry |-> (returned = "start:denied")]

\* a further tap or navigation may be handled
CanTap == nTaps < MaxTaps /\ Cardinality(tasks) < MaxInFlight

\* the expo-av object created next
NewHandle == MaxStored + nHandles + 1

\* `onPress={recording ? stopRecording : startRecording}`
onPress(rec) == IF rec # 0 THEN "stopRecording" ELSE "startRecording"

\* cleanup of the effect on [sound]: when the tracked sound changes, the
\* sound tracked before is unloaded
Cleanup(S, tracked, next) ==
  IF tracked # 0 /\ tracked # next THEN S \ {tracked} ELSE S

Moved(t, pc) == (tasks \ {t}) \cup {[t EXCEPT !.pc = pc]}

\* the registry and the history items are not touched by this step
RegistryUnchanged == UNCHANGED rvars /\ UNCHANGED ivars

\* startRecording up to `await Audio.requestPermissionsAsync()`
StartTap ==
  /\ CanTap
  /\ onPress(recording) = "startRecording"
  /\ tasks' = tasks \cup {NewTask("start", "permission", sound, 0, 0, << >>)}
  /\ nTaps' = nTaps + 1
  /\ UNCHANGED <<recording, recordedURI, sound, isPlaying, isSending, ended, isLoading,
                 transcription, analysis, currentRecordingTitle, params,
                 captures, sounds, playing, nHandles, alert, session, returned>>
  /\ UNCHANGED origin
  /\ UNCHANGED added
  /\ RegistryUnchanged

\* variant: the previous session is cleared before the permission is known
ClearedFirst(granted, current, null) == null

\* "Clear previous recording states" runs after the permission check
Cleared(granted, current, null) == IF granted THEN null ELSE current

\* startRecording after the permission request: a denial alerts and returns,
\* a grant clears the previous session up to `await sound.unloadAsync()` or
\* up to `await Audio.Recording.createAsync`
StartPermission(t, granted) ==
  /\ t.kind = "start" /\ t.pc = "permission"
  /\ currentRecordingTitle' = Cleared(granted, currentRecordingTitle, NoTitle)
  /\ transcription' = Cleared(granted, transcription, 0)
  /\ analysis' = Cleared(granted, analysis, 0)
  /\ recordedURI' = Cleared(granted, recordedURI, 0)
  /\ isPlaying' = IF granted /\ t.snd = 0 THEN FALSE ELSE isPlaying
  /\ alert' = IF granted THEN alert ELSE "permission"
  /\ session' = IF granted THEN session + 1 ELSE session
  /\ tasks' = IF granted
                THEN Moved(t, IF t.snd # 0 THEN "unloading" ELSE "creating")
                ELSE tasks \ {t}
  /\ returned' = IF granted THEN returned ELSE "start:denied"
  /\ UNCHANGED <<recording, sound, isSending, ended, isLoading, params, captures,
                 sounds, playing, nTaps, nHandles>>
  /\ origin' = IF granted THEN [origin EXCEPT !.text = 0, !.title = 0] ELSE origin
  /\ UNCHANGED added
  /\ RegistryUnchanged

\* startRecording after `await sound.unloadAsync()`: setSound(null),
\* setIsPlaying(false), then the awaits up to createAsync
StartUnloaded(t) ==
  /\ t.kind = "start" /\ t.pc = "unloading"
  /\ sound' = 0
  /\ sounds' = Cleanup(sounds \ {t.snd}, sound, 0)
  /\ playing' = Cleanup(playing \ {t.snd}, sound, 0)
  /\ isPlaying' = FALSE
  /\ tasks' = Moved(t, "creating")
  /\ UNCHANGED <<recording, recordedURI, isSending, ended, isLoading, transcription,
                 analysis, currentRecordingTitle, params, captures, nTaps,
                 nHandles, alert, session, returned>>
  /\ origin' = [origin EXCEPT !.sound = 0]
  /\ UNCHANGED added
  /\ RegistryUnchanged

\* startRecording after `await Audio.Recording.createAsync`: the handle is
\* tracked by setRecording, or the rejection is logged by the catch
StartCreated(t, ok) ==
  /\ t.kind = "start" /\ t.pc = "creating"
  /\ tasks' = tasks \ {t}
  /\ IF ok
       THEN /\ recording' = NewHandle
            /\ captures' = captures \cup {NewHandle}
            /\ nHandles' = nHandles + 1
            /\ returned' = IF t.retry THEN "start:capturingAfterDenial"
                           ELSE "start:capturing"
       ELSE /\ returned' = "start:failed"
            /\ UNCHANGED <<recording, captures, nHandles>>
  /\ UNCHANGED <<recordedURI, sound, isPlaying, isSending, ended, isLoading,
                 transcription, analysis, currentRecordingTitle, params,
                 sounds, playing, nTaps, alert, session>>
  /\ UNCHANGED origin
  /\ UNCHANGED added
  /\ RegistryUnchanged

\* stop handlers that have not called addRecording yet
Stopping == {t \in tasks : t.kind = "stop"}

\* stopRecording up to `await recording.stopAndUnloadAsync()`
StopTap ==
  /\ CanTap
  /\ nOps + Cardinality(Stopping) < MaxOps
  /\ onPress(recording) = "stopRecording"
  /\ tasks' = tasks \cup {NewTask("stop", "stopping", 0, recording, 0, recordings)}
  /\ nTaps' = nTaps + 1
  /\ UNCHANGED <<recording, recordedURI, sound, isPlaying, isSending, ended, isLoading,
                 transcription, analysis, currentRecordingTitle, params,
                 captures, sounds, playing, nHandles, alert, session, returned>>
  /\ UNCHANGED origin
  /\ UNCHANGED added
  /\ RegistryUnchanged

\* variant: a rejected stopAndUnloadAsync is swallowed and the handler goes on
AfterStopAlways(open) == "status"

\* the `try` of stopRecording: when stopAndUnloadAsync rejects, the rest of
\* the handler is skipped
AfterStop(open) == IF open THEN "status" ELSE "return"

\* how stopAndUnloadAsync of a prepared capture settles: it resolves, or
\* it rejects with the capture unloaded or left as it was
StopOutcomes == {"stopped", "rejected", "rejectedUnloaded"}

\* stopRecording after stopAndUnloadAsync: setRecordedURI(recording.getURI())
\* and setRecording(null), up to `await recording.getStatusAsync()`; when
\* the call rejects, as it does on a handle that is unloaded already, the
\* catch logs and nothing is set
StopStopped(t, out, uri) ==
  /\ t.kind = "stop" /\ t.pc = "stopping"
  /\ uri \in {0, t.rec}
  /\ IF t.rec \in captures /\ out = "stopped"
       THEN /\ captures' = captures \ {t.rec}
            /\ recordedURI' = uri
            /\ recording' = 0
       ELSE /\ captures' = IF out = "rejectedUnloaded" THEN captures \ {t.rec}
                           ELSE captures
            /\ UNCHANGED <<recordedURI, recording>>
  /\ IF AfterStop(t.rec \in captures /\ out = "stopped") = "status"
       THEN /\ tasks' = (tasks \ {t}) \cup
                         {[t EXCEPT !.pc = "status", !.uri = uri]}
            /\ UNCHANGED returned
       ELSE /\ tasks' = tasks \ {t}
            /\ returned' = IF t.rec \in captures THEN "stop:failed"
                           ELSE "stop:unloaded"
  /\ UNCHANGED <<sound, isPlaying, isSending, ended, isLoading, transcription,
                 analysis, currentRecordingTitle, params, sounds, playing,
                 nTaps, nHandles, alert, session>>
  /\ UNCHANGED origin
  /\ UNCHANGED added
  /\ RegistryUnchanged

\* variant: the recording is added whatever getURI returned
HasUriAlways(uri) == TRUE

\* `if (uri)`
HasUri(uri) == uri # 0

\* stopRecording after getStatusAsync: `if (uri)` calls addRecording, which
\* computes the next sequence from its closure and issues setItem; without
\* a uri the handler returns
StopAdd(t, d) ==
  /\ t.kind = "stop" /\ t.pc = "status"
  /\ tasks' = tasks \ {t}
  /\ IF HasUri(t.uri)
       THEN /\ clock' = clock + 1
            /\ ops' = [ops EXCEPT ![nOps + 1] =
                 Issued([NoOp EXCEPT
                    !.kind = "add", !.base = t.base, !.id = clock',
                    !.rec = [NewRecording(clock', d) EXCEPT !.uri = t.uri]])]
            /\ nOps' = nOps + 1
            /\ nativeQ' = Append(nativeQ, nOps + 1)
            /\ overlap' = (overlap \/ Busy)
            /\ added' = added \cup {t.rec}
            /\ returned' = "stop:added"
       ELSE /\ returned' = "stop:noUri"
            /\ UNCHANGED <<clock, ops, nOps, nativeQ, overlap, added>>
  /\ UNCHANGED <<recordings, storage, loaded, cbQ, notice, last, clash, expected>>
  /\ UNCHANGED ivars
  /\ UNCHANGED <<recording, recordedURI, sound, isPlaying, isSending, ended, isLoading,
                 transcription, analysis, currentRecordingTitle, params,
                 captures, sounds, playing, nTaps, nHandles, alert, session>>
  /\ UNCHANGED origin


\* playPauseRecording up to its first await: createAsync when the closure
\* holds no sound, getStatusAsync of the closure's sound otherwise
PlayTap ==
  /\ CanTap
  /\ recordedURI # 0
  /\ tasks' = tasks \cup
       {IF sound = 0
          THEN NewTask("play", "loading", 0, 0, recordedURI, << >>)
          ELSE NewTask("toggle", "status", sound, 0, 0, << >>)}
  /\ nTaps' = nTaps + 1
  /\ ended' = FALSE
  /\ UNCHANGED <<recording, recordedURI, sound, isPlaying, isSending, isLoading,
                 transcription, analysis, currentRecordingTitle, params,
                 captures, sounds, playing, nHandles, alert, session, returned>>
  /\ UNCHANGED origin
  /\ UNCHANGED added
  /\ RegistryUnchanged

\* Audio.Sound.createAsync({uri: recordedURI}, {shouldPlay: false}) settles:
\* a sound is loaded, or the rejection reaches the catch
SoundCreated(t, ok) ==
  /\ t.kind = "play" /\ t.pc = "loading"
  /\ IF ok
       THEN /\ sounds' = sounds \cup {NewHandle}
            /\ nHandles' = nHandles + 1
            /\ tasks' = (tasks \ {t}) \cup
                         {[t EXCEPT !.pc = "loaded", !.snd = NewHandle]}
            /\ UNCHANGED <<isPlaying, returned>>
       ELSE /\ isPlaying' = FALSE
            /\ tasks' = tasks \ {t}
            /\ returned' = "play:failed"
            /\ UNCHANGED <<sounds, nHandles>>
  /\ UNCHANGED <<recording, recordedURI, sound, isSending, isLoading,
                 transcription, analysis, currentRecordingTitle, params,
                 captures, playing, nTaps, alert, session, ended>>
  /\ UNCHANGED origin
  /\ UNCHANGED added
  /\ RegistryUnchanged

\* playPauseRecording after createAsync: setSound(newSound), the status
\* listener is set, up to `await newSound.playAsync()`
PlayContinue(t) ==
  /\ t.kind = "play" /\ t.pc = "loaded"
  /\ sound' = t.snd
  /\ sounds' = Cleanup(sounds, sound, t.snd)
  /\ playing' = Cleanup(playing, sound, t.snd)
  /\ tasks' = Moved(t, "starting")
  /\ UNCHANGED <<recording, recordedURI, isPlaying, isSending, isLoading,
                 transcription, analysis, currentRecordingTitle, params,
                 captures, nTaps, nHandles, alert, session, returned, ended>>
  /\ origin' = [origin EXCEPT !.sound = t.ses]
  /\ UNCHANGED added
  /\ RegistryUnchanged

\* playPauseRecording after playAsync: setIsPlaying(true); on a sound that
\* is unloaded by now playAsync rejects and the catch sets isPlaying false
PlayStarted(t) ==
  /\ t.kind = "play" /\ t.pc = "starting"
  /\ playing' = IF t.snd \in sounds THEN playing \cup {t.snd} ELSE playing
  /\ isPlaying' = (t.snd \in sounds)
  /\ tasks' = tasks \ {t}
  /\ returned' = IF t.snd \in sounds THEN "play:playing" ELSE "play:failed"
  /\ UNCHANGED <<recording, recordedURI, sound, isSending, isLoading,
                 transcription, analysis, currentRecordingTitle, params,
                 captures, sounds, nTaps, nHandles, alert, session, ended>>
  /\ UNCHANGED origin
  /\ UNCHANGED added
  /\ RegistryUnchanged

\* playPauseRecording with a sound after `await sound.getStatusAsync()`:
\* returns when the sound is not loaded, else pauses or resumes it
ToggleStatus(t) ==
  /\ t.kind = "toggle" /\ t.pc = "status"
  /\ tasks' = IF t.snd \notin sounds THEN tasks \ {t}
              ELSE Moved(t, IF t.snd \in playing THEN "pausing" ELSE "resuming")
  /\ returned' = IF t.snd \notin sounds THEN "toggle:unloaded" ELSE returned
  /\ UNCHANGED <<recording, recordedURI, sound, isPlaying, isSending, isLoading,
                 transcription, analysis, currentRecordingTitle, params,
                 captures, sounds, playing, nTaps, nHandles, alert, session,
                 ended>>
  /\ UNCHANGED origin
  /\ UNCHANGED added
  /\ RegistryUnchanged

\* after `await sound.pauseAsync()` (true) or `await sound.playAsync()`:
\* setIsPlaying; on an unloaded sound the call rejects and nothing is set
ToggleDone(t) ==
  /\ t.kind = "toggle" /\ t.pc \in {"pausing", "resuming"}
  /\ tasks' = tasks \ {t}
  /\ IF t.snd \in sounds
       THEN /\ playing' = IF t.pc = "pausing" THEN playing \ {t.snd}
                          ELSE playing \cup {t.snd}
            /\ isPlaying' = (t.pc = "resuming")
            /\ returned' = IF t.pc = "pausing" THEN "toggle:paused"
                           ELSE "toggle:playing"
       ELSE /\ returned' = "toggle:rejected"
            /\ UNCHANGED <<playing, isPlaying>>
  /\ UNCHANGED <<recording, recordedURI, sound, isSending, isLoading,
                 transcription, analysis, currentRecordingTitle, params,
                 captures, sounds, nTaps, nHandles, alert, session, ended>>
  /\ UNCHANGED origin
  /\ UNCHANGED added
  /\ RegistryUnchanged

\* sounds whose status listener is set
Listening == {s \in sounds : \A t \in tasks : ~(t.pc = "loaded" /\ t.snd = s)}

\* the listener with status.didJustFinish: newSound.unloadAsync(),
\* setSound(null), setIsPlaying(false)
DidJustFinish(s) ==
  /\ s \in playing \cap Listening
  /\ sound' = 0
  /\ sounds' = Cleanup(sounds \ {s}, sound, 0)
  /\ playing' = Cleanup(playing \ {s}, sound, 0)
  /\ isPlaying' = FALSE
  /\ ended' = TRUE
  /\ UNCHANGED <<recording, recordedURI, isSending, isLoading, transcription,
                 analysis, currentRecordingTitle, params, captures, tasks,
                 nTaps, nHandles, alert, session, returned>>
  /\ origin' = [origin EXCEPT !.sound = 0]
  /\ UNCHANGED added
  /\ RegistryUnchanged

\* the listener with a status of a loaded sound:
\* setIsPlaying(status.isPlaying)
StatusUpdate(s) ==
  /\ s \in Listening
  /\ isPlaying # (s \in playing)
  /\ isPlaying' = (s \in playing)
  /\ UNCHANGED <<recording, recordedURI, sound, isSending, isLoading,
                 transcription, analysis, currentRecordingTitle, params,
                 captures, sounds, playing, tasks, nTaps, nHandles, alert,
                 session, returned, ended>>
  /\ UNCHANGED origin
  /\ UNCHANGED added
  /\ RegistryUnchanged

\* variant: the call is never ignored
IgnoredNever(loading) == FALSE

\* `if (isLoading) return;`
Ignored(loading) == loading

\* sendAudioForTranscription(uri) up to `await fetch(...)`; the audio file
\* named by the uri is on the device or not
Send(uri, file) ==
  /\ nTaps' = nTaps + 1
  /\ IF Ignored(isLoading)
       THEN /\ returned' = "send:ignored"
            /\ UNCHANGED <<isLoading, isSending, transcription, analysis, tasks>>
       ELSE /\ isLoading' = TRUE
            /\ isSending' = TRUE
            /\ transcription' = 0
            /\ analysis' = 0
            /\ tasks' = tasks \cup
                 {[NewTask("upload", "fetch", 0, 0, uri, << >>)
                     EXCEPT !.file = file]}
            /\ UNCHANGED returned

\* the Send button: shown with a recorded uri and without a navigation
\* parameter, disabled while isSending
SendTap(file) ==
  /\ CanTap
  /\ recordedURI # 0 /\ params = 0 /\ ~isSending
  /\ Send(recordedURI, file)
  /\ UNCHANGED <<recording, recordedURI, sound, isPlaying,
                 currentRecordingTitle, params, captures, sounds, playing,
                 nHandles, alert, session, ended>>
  /\ origin' = [origin EXCEPT !.text = 0]
  /\ UNCHANGED added
  /\ RegistryUnchanged

\* handleAnalyze of a history item pushes its uri and title as navigation
\* parameters; the effect on the parameters of App sets them as the
\* session's uri and title and calls sendAudioForTranscription
HandleAnalyze(id, file) ==
  /\ CanTap
  /\ id \in Rendered
  /\ LET r == getRecording(recordings, id) IN
       /\ params # r.uri
       /\ params' = r.uri
       /\ recordedURI' = r.uri
       /\ currentRecordingTitle' = r.title
       /\ Send(r.uri, file)
  /\ UNCHANGED <<recording, sound, isPlaying, captures, sounds, playing,
                 nHandles, alert, session, ended>>
  /\ origin' = [origin EXCEPT !.text = IF Ignored(isLoading) THEN @ ELSE 0,
                                !.title = session]
  /\ UNCHANGED added
  /\ RegistryUnchanged

\* the texts the endpoint holds for the audio of a uri
TranscriptionOf(uri) == 2 * uri
AnalysisOf(uri) == 2 * uri + 1

\* fetch has thrown: no response
Thrown == [NoResponse EXCEPT !.kind = "thrown"]

\* a response with a non-success status: its body is an error text
ServerError == [NoResponse EXCEPT !.kind = "response"]

\* what `await fetch(...)` of an upload can settle with: it throws, as it
\* must when the file of the form is not on the device, or it resolves with
\* a server error or with a success status and a body that has or lacks
\* each of the two fields
Responses(uri, file) ==
  {Thrown} \cup
  IF file
    THEN {ServerError} \cup
         {[kind |-> "response", ok |-> TRUE, transcription |-> x,
           analysis |-> y] :
            x \in {0, TranscriptionOf(uri)}, y \in {0, AnalysisOf(uri)}}
    ELSE {}

\* variant: the fields of the body are not checked
AcceptedUnchecked(r) == r.kind = "response" /\ r.ok

\* neither `if (!response.ok)` nor
\* `if (!data.transcription || !data.analysis)` throws
Accepted(r) ==
  r.kind = "response" /\ r.ok /\ r.transcription # 0 /\ r.analysis # 0

\* variant: the analysis shown is the transcription
YieldTranscription(r) ==
  [transcription |-> r.transcription, analysis |-> r.transcription]

\* setTranscription(data.transcription); setAnalysis(data.analysis)
Yield(r) == [transcription |-> r.transcription, analysis |-> r.analysis]

\* variant: the flags are cleared at the end of the `try` block
FinallySuccessOnly(flag, accepted) == IF accepted THEN FALSE ELSE flag

\* `finally { setIsLoading(false); setIsSending(false); }`
Finally(flag, accepted) == FALSE

\* how sendAudioForTranscription ends: past both checks, or with the Error
\* of the status check, of the field check or of fetch in its catch
Outcome(r) ==
  IF Accepted(r) THEN "upload:ok"
  ELSE IF r.kind = "thrown" THEN "upload:thrown"
  ELSE IF ~r.ok THEN "upload:status"
  ELSE "upload:malformed"

\* the end of sendAudioForTranscription with response r: the fields of an
\* accepted response are set, anything else reaches the catch, which
\* alerts; `finally` clears both flags
Completed(t, r) ==
  /\ transcription' =
       IF Accepted(r) THEN Yield(r).transcription ELSE transcription
  /\ analysis' = IF Accepted(r) THEN Yield(r).analysis ELSE analysis
  /\ alert' = IF Accepted(r) THEN alert ELSE "analyzeFailed"
  /\ isLoading' = Finally(isLoading, Accepted(r))
  /\ isSending' = Finally(isSending, Accepted(r))
  /\ tasks' = tasks \ {t}
  /\ returned' = Outcome(r)
  /\ origin' = IF Accepted(r) THEN [origin EXCEPT !.text = t.ses] ELSE origin

\* sendAudioForTranscription after `await fetch(...)`: a response is read
\* up to `await response.text()` or `await response.json()`; when fetch has
\* thrown the handler ends in its catch
FetchSettled(t, r) ==
  /\ t.kind = "upload" /\ t.pc = "fetch"
  /\ r \in Responses(t.uri, t.file)
  /\ IF r = Thrown
       THEN Completed(t, r)
       ELSE /\ tasks' = (tasks \ {t}) \cup
                         {[t EXCEPT !.pc = "body", !.resp = r]}
            /\ UNCHANGED <<transcription, analysis, alert, isLoading,
                           isSending, returned, origin>>
  /\ UNCHANGED <<recording, recordedURI, sound, isPlaying,
                 currentRecordingTitle, params, captures, sounds, playing,
                 nTaps, nHandles, session, ended>>
  /\ UNCHANGED added
  /\ RegistryUnchanged

\* sendAudioForTranscription after the body of the response is read
UploadDone(t) ==
  /\ t.kind = "upload" /\ t.pc = "body"
  /\ Completed(t, t.resp)
  /\ UNCHANGED <<recording, recordedURI, sound, isPlaying,
                 currentRecordingTitle, params, captures, sounds, playing,
                 nTaps, nHandles, session, ended>>
  /\ UNCHANGED added
  /\ RegistryUnchanged

\* the provider has loaded the recordings of earlier sessions
ControllerInit ==
  /\ Mounted
  /\ Listed
  /\ recordings = [j \in 1..MaxStored |-> StoredRecording(j)]
  /\ storage = Stringify(recordings)
  /\ loaded = TRUE
  /\ ops = [i \in OpIds |-> NoOp]
  /\ nOps = 0
  /\ nativeQ = << >>
  /\ cbQ = << >>
  /\ clock = StartClock
  /\ notice = "none"
  /\ last = NoReturn
  /\ clash = FALSE
  /\ overlap = FALSE
  /\ expected = recordings

ControllerNext ==
  \/ \E id \in Rendered, file \in BOOLEAN : HandleAnalyze(id, file)
  \/ \E file \in BOOLEAN : SendTap(file)
  \/ PlayTap
  \/ StartTap
  \/ \E t \in tasks, granted \in BOOLEAN : StartPermission(t, granted)
  \/ \E t \in tasks : StartUnloaded(t)
  \/ \E t \in tasks, ok \in BOOLEAN : StartCreated(t, ok)
  \/ StopTap
  \/ \E t \in tasks, out \in StopOutcomes, uri \in 0..NewHandle :
       StopStopped(t, out, uri)
  \/ \E t \in tasks, d \in Durations : StopAdd(t, d)
  \/ \E t \in tasks, ok \in BOOLEAN : SoundCreated(t, ok)
  \/ \E t \in tasks : PlayContinue(t)
  \/ \E t \in tasks : PlayStarted(t)
  \/ \E t \in tasks : ToggleStatus(t)
  \/ \E t \in tasks : ToggleDone(t)
  \/ \E s \in sounds : DidJustFinish(s)
  \/ \E s \in sounds : StatusUpdate(s)
  \/ \E t \in tasks : \E r \in Responses(t.uri, t.file) : FetchSettled(t, r)
  \/ \E t \in tasks : UploadDone(t)
  \/ \E okFlag \in BOOLEAN : AsyncStorageServe(okFlag)
  \/ CallContinue

Controller == ControllerInit /\ [][ControllerNext]_vars

\* the promises of an upload settle: fetch returns or throws, and the body
\* of a response is read
UploadSettles ==
  \E t \in tasks :
    \/ \E r \in Responses(t.uri, t.file) : FetchSettled(t, r)
    \/ UploadDone(t)

\* the controller with a network call that returns or throws
ControllerFair == Controller /\ WF_vars(UploadSettles)

\* ----------------------------------------------------------- history items
\* RecordingItem of src/app/components/RecordingItem.tsx, one component for
\* each rendered recording.  An item is unmounted when its recording leaves
\* the sequence; state updates of a handler of an unmounted item are
\* dropped by React.

\* a handler invocation of the item of recording id: its number, its
\* position, the sound its closure read, the registry handler it started,
\* whether the item is still mounted
ItemTask(id, kind, pc, snd, op) ==
  [n |-> nItemTaps + 1, id |-> id, kind |-> kind, pc |-> pc, snd |-> snd,
   op |-> op, mounted |-> TRUE]

\* a further tap on an item may be handled
ItemCanTap == nItemTaps < MaxTaps /\ Cardinality(itemTasks) < MaxInFlight

\* the sounds of S other than the one with handle h
Released(S, h) == {s \in S : s.h # h}

\* the loaded sounds after the tracked sound of an item changed to next:
\* the cleanup of the effect on [sound] unloads the sound tracked before
ItemCleanup(S, tracked, next) ==
  IF tracked # 0 /\ tracked # next THEN Released(S, tracked) ELSE S

\* the registry, but for the Alert of the item, is not touched by this step
RegistryKept ==
  UNCHANGED <<recordings, storage, loaded, ops, nOps, nativeQ, cbQ, clock,
              last, clash, overlap, expected>>

\* playRecording up to its first await: pauseAsync or playAsync of the
\* closure's sound, or setAudioModeAsync and Audio.Sound.createAsync
PlayRecordingTap(id) ==
  /\ ItemCanTap
  /\ id \in Rendered
  /\ itemTasks' = itemTasks \cup
       {IF itemSound[id] # 0
          THEN ItemTask(id, "toggle",
                        IF itemPlaying[id] THEN "pausing" ELSE "resuming",
                        itemSound[id], 0)
          ELSE ItemTask(id, "play", "creating", 0, 0)}
  /\ nItemTaps' = nItemTaps + 1
  /\ UNCHANGED <<itemSound, itemPlaying, itemSounds, itemAudible>>
  /\ UNCHANGED rvars
  /\ UNCHANGED cvars

\* Audio.Sound.createAsync({uri: recording.uri}, {shouldPlay: true})
\* settles: a sound is loaded and plays, or the rejection reaches the catch,
\* which alerts
ItemSoundCreated(t, ok) ==
  /\ t.kind = "play" /\ t.pc = "creating"
  /\ IF ok
       THEN /\ itemSounds' = itemSounds \cup
                  {[id |-> t.id, h |-> t.n, mounted |-> t.mounted]}
            /\ itemAudible' = itemAudible \cup {t.n}
            /\ itemTasks' = (itemTasks \ {t}) \cup
                             {[t EXCEPT !.pc = "created", !.snd = t.n]}
            /\ UNCHANGED notice
       ELSE /\ itemTasks' = itemTasks \ {t}
            /\ notice' = "playFailed"
            /\ UNCHANGED <<itemSounds, itemAudible>>
  /\ UNCHANGED <<itemSound, itemPlaying, nItemTaps>>
  /\ RegistryKept
  /\ UNCHANGED cvars

\* playRecording after createAsync: setSound(newSound), setIsPlaying(true)
\* and the status listener is set
ItemPlayContinue(t) ==
  /\ t.kind = "play" /\ t.pc = "created"
  /\ itemTasks' = itemTasks \ {t}
  /\ IF t.mounted
       THEN /\ itemSound' = [itemSound EXCEPT ![t.id] = t.snd]
            /\ itemPlaying' = [itemPlaying EXCEPT ![t.id] = TRUE]
            /\ itemSounds' = ItemCleanup(itemSounds, itemSound[t.id], t.snd)
            /\ itemAudible' =
                 IF itemSound[t.id] # t.snd
                   THEN itemAudible \ {itemSound[t.id]} ELSE itemAudible
       ELSE UNCHANGED <<itemSound, itemPlaying, itemSounds, itemAudible>>
  /\ UNCHANGED nItemTaps
  /\ UNCHANGED rvars
  /\ UNCHANGED cvars

\* playRecording with a sound after `await sound.pauseAsync()` or
\* `await sound.playAsync()`: setIsPlaying; on an unloaded sound the call
\* rejects and the catch alerts
ItemToggleDone(t) ==
  /\ t.kind = "toggle"
  /\ itemTasks' = itemTasks \ {t}
  /\ IF \E s \in itemSounds : s.h = t.snd
       THEN /\ itemAudible' = IF t.pc = "pausing" THEN itemAudible \ {t.snd}
                              ELSE itemAudible \cup {t.snd}
            /\ itemPlaying' =
                 IF t.mounted
                   THEN [itemPlaying EXCEPT ![t.id] = (t.pc = "resuming")]
                   ELSE itemPlaying
            /\ UNCHANGED notice
       ELSE /\ notice' = "playFailed"
            /\ UNCHANGED <<itemAudible, itemPlaying>>
  /\ UNCHANGED <<itemSound, itemSounds, nItemTaps>>
  /\ RegistryKept
  /\ UNCHANGED cvars

\* sounds of items whose status listener is set
ItemListening ==
  {s \in itemSounds : \A t \in itemTasks : ~(t.pc = "created" /\ t.snd = s.h)}

\* the status listener of a loaded sound: setIsPlaying(status.isPlaying),
\* and with status.didJustFinish newSound.unloadAsync(), setSound(null),
\* setIsPlaying(false)
ItemStatusUpdate(s, didJustFinish) ==
  /\ s \in ItemListening
  /\ didJustFinish => s.h \in itemAudible
  /\ IF didJustFinish /\ s.mounted
       THEN /\ itemSound' = [itemSound EXCEPT ![s.id] = 0]
            /\ itemPlaying' = [itemPlaying EXCEPT ![s.id] = FALSE]
            /\ itemSounds' =
                 ItemCleanup(Released(itemSounds, s.h), itemSound[s.id], 0)
            /\ itemAudible' = itemAudible \ {s.h, itemSound[s.id]}
       ELSE /\ itemSounds' =
                 IF didJustFinish THEN Released(itemSounds, s.h)
                 ELSE itemSounds
            /\ itemAudible' =
                 IF didJustFinish THEN itemAudible \ {s.h} ELSE itemAudible
            /\ itemPlaying' =
                 IF s.mounted
                   THEN [itemPlaying EXCEPT ![s.id] = (s.h \in itemAudible)]
                   ELSE itemPlaying
            /\ UNCHANGED itemSound
  /\ UNCHANGED <<itemTasks, nItemTaps>>
  /\ UNCHANGED rvars
  /\ UNCHANGED cvars

\* handleDelete up to its first await: `await sound.unloadAsync()` when the
\* closure holds a sound, else deleteRecording(recording.id)
ItemDelete(id) ==
  /\ ItemCanTap
  /\ nItemTaps' = nItemTaps + 1
  /\ IF itemSound[id] # 0
       THEN /\ DeleteAwaited(id)
            /\ itemTasks' = itemTasks \cup
                 {ItemTask(id, "delete", "unloading", itemSound[id], nOps + 1)}
       ELSE /\ DeleteCalled(id)
            /\ UNCHANGED itemTasks
  /\ UNCHANGED <<itemSound, itemPlaying, itemSounds, itemAudible>>
  /\ UNCHANGED cvars

\* handleDelete after `await sound.unloadAsync()`: the sound of the closure
\* is unloaded and deleteRecording(recording.id) is called
ItemDeleteUnloaded(t) ==
  /\ t.kind = "delete" /\ t.pc = "unloading"
  /\ itemSounds' = Released(itemSounds, t.snd)
  /\ itemAudible' = itemAudible \ {t.snd}
  /\ itemTasks' = itemTasks \ {t}
  /\ DeleteIssued(t.op)
  /\ UNCHANGED <<itemSound, itemPlaying, nItemTaps>>
  /\ UNCHANGED cvars

\* variant: the effect on [sound] of an item returns no cleanup
UnmountedKept(S, gone) == S

\* the loaded sounds after the items of the recordings in gone are
\* unmounted: the cleanup of the effect on [sound] unloads the sound each
\* of them tracks
Unmounted(S, gone) ==
  {s \in S : ~(s.id \in gone /\ s.h = itemSound[s.id])}

\* a registry call continues and the list is rendered from the sequence it
\* set: an item whose recording has left the sequence is unmounted, the
\* cleanup of its effect unloads the sound it tracks, and its state is gone
ItemCallContinue ==
  /\ CallReturned
  /\ LET gone == Rendered \ Ids(recordings') IN
       /\ itemSounds' =
            {[s EXCEPT !.mounted = s.mounted /\ s.id \notin gone] :
               s \in Unmounted(itemSounds, gone)}
       /\ itemAudible' = itemAudible \ {itemSound[id] : id \in gone}
       /\ itemSound' =
            [id \in DOMAIN itemSound |->
               IF id \in gone THEN 0 ELSE itemSound[id]]
       /\ itemPlaying' =
            [id \in DOMAIN itemPlaying |->
               IF id \in gone THEN FALSE ELSE itemPlaying[id]]
       /\ itemTasks' =
            {[t EXCEPT !.mounted = t.mounted /\ t.id \notin gone] :
               t \in itemTasks}
  /\ UNCHANGED nItemTaps
  /\ UNCHANGED cvars

\* the history screen with the recordings of earlier sessions loaded
ItemInit == ControllerInit

ItemNext ==
  \/ \E id \in Rendered : PlayRecordingTap(id)
  \/ \E t \in itemTasks, ok \in BOOLEAN : ItemSoundCreated(t, ok)
  \/ \E t \in itemTasks : ItemPlayContinue(t)
  \/ \E t \in itemTasks : ItemToggleDone(t)
  \/ \E s \in itemSounds, didJustFinish \in BOOLEAN :
       ItemStatusUpdate(s, didJustFinish)
  \/ \E id \in Rendered : ItemDelete(id)
  \/ \E t \in itemTasks : ItemDeleteUnloaded(t)
  \/ \E okFlag \in BOOLEAN : AsyncStorageServe(okFlag)
  \/ ItemCallContinue

Item == ItemInit /\ [][ItemNext]_vars

\* ------------------------------------------------------------ both screens
\* the awaited promises of the handlers of App settle, and a sound that
\* plays reaches its end
ControllerSettles ==
  \/ \E t \in tasks, granted \in BOOLEAN : StartPermission(t, granted)
  \/ \E t \in tasks : StartUnloaded(t)
  \/ \E t \in tasks, ok \in BOOLEAN : StartCreated(t, ok)
  \/ \E t \in tasks, out \in StopOutcomes, uri \in 0..NewHandle :
       StopStopped(t, out, uri)
  \/ \E t \in tasks, d \in Durations : StopAdd(t, d)
  \/ \E t \in tasks, ok \in BOOLEAN : SoundCreated(t, ok)
  \/ \E t \in tasks : PlayContinue(t)
  \/ \E t \in tasks : PlayStarted(t)
  \/ \E t \in tasks : ToggleStatus(t)
  \/ \E t \in tasks : ToggleDone(t)
  \/ \E s \in sounds : DidJustFinish(s)
  \/ UploadSettles
  \/ \E okFlag \in BOOLEAN : AsyncStorageServe(okFlag)
  \/ CallContinue

\* the awaited promises of the handlers of the items settle, and a sound
\* that plays reaches its end
ItemSettles ==
  \/ \E t \in itemTasks, ok \in BOOLEAN : ItemSoundCreated(t, ok)
  \/ \E t \in itemTasks : ItemPlayContinue(t)
  \/ \E t \in itemTasks : ItemToggleDone(t)
  \/ \E t \in itemTasks : ItemDeleteUnloaded(t)
  \/ \E s \in itemSounds : ItemStatusUpdate(s, TRUE)
  \/ \E okFlag \in BOOLEAN : AsyncStorageServe(okFlag)
  \/ ItemCallContinue

\* the taps of a run go to the capture screen or to the history items
ScreensNext ==
  \/ nItemTaps = 0 /\ ControllerNext
  \/ nTaps = 0 /\ ItemNext

\* either screen, with promises that settle and playback that ends
ScreensFair ==
  /\ ControllerInit
  /\ [][ScreensNext]_vars
  /\ WF_vars(ControllerSettles)
  /\ WF_vars(ItemSettles)

\* ------------------------------------------------------------ vocabulary
Distinct(s) == \A j, k \in 1..Len(s) : s[j].id = s[k].id => j = k

Entries(s) == {s[j] : j \in 1..Len(s)}

\* the persisted sequence, as loadRecordings would read it back
Persisted == IF storage.kind = "json" THEN Parse(storage) ELSE << >>

\* no registry call is between its setItem and its return
Quiescent == \A i \in 1..MaxOps : ops[i].pc # "writing"

\* this step is the return of a registry call of the given kind whose
\* write succeeded (okFlag) or failed
CallReturns(kind, okFlag) ==
  /\ cbQ # << >> /\ Head(cbQ).who # LOAD
  /\ ops[Head(cbQ).who].kind = kind
  /\ Head(cbQ).ok = okFlag
  /\ cbQ' = Tail(cbQ)

\* the call that returns in this step
Returning == ops[Head(cbQ).who]

Kinds == {"add", "delete", "update"}

\* this step serves the setItem of a registry call of the given kind
WriteServed(kind) ==
  /\ nativeQ # << >> /\ Head(nativeQ) # LOAD
  /\ ops[Head(nativeQ)].kind = kind
  /\ nativeQ' = Tail(nativeQ)

\* the call whose setItem is served in this step
Writing == ops[Head(nativeQ)]

\* the entry of the call's id with the call's title, everything else as in s
Retitled(s, o) ==
  [j \in 1..Len(s) |->
     IF s[j].id = o.id THEN [s[j] EXCEPT !.title = o.updates.title] ELSE s[j]]

TypeOK ==
  /\ nOps \in 0..MaxOps
  /\ loaded \in BOOLEAN
  /\ \A i \in OpIds : ops[i].pc \in {"unused", "invoked", "writing", "done"}

\* ----------------------------------------------------------------- claims

\* C1: when the added recordings carry pairwise distinct ids, all ids of the
\* in-memory sequence and of the persisted sequence are pairwise distinct.
C1_UniqueIds == ~clash => Distinct(recordings) /\ Distinct(Persisted)

\* a recording was added to loaded ones, an entry was deleted, ids are distinct
C1_Witness ==
  /\ ~clash /\ last.kind = "delete" /\ last.ok
  /\ Len(recordings) >= 2
  /\ \E j \in 1..Len(recordings) : recordings[j].id > StartClock

\* C2: in runs whose registry calls are serialized, on a registry with
\* distinct ids a deleteRecording(id) that completes successfully leaves the
\* previous sequence without the entry of that id and with the other
\* entries in their order; getRecording(id) is then the absent marker and
\* getRecording of any other present id is still that entry.
C2_DeleteRemovesEntry ==
  [][(~overlap /\ CallReturns("delete", TRUE) /\ Distinct(recordings)) =>
       /\ recordings' = Filter(recordings, Returning.id)
       /\ getRecording(recordings', Returning.id) = Undefined
       /\ \A e \in Entries(recordings) :
            e.id # Returning.id => getRecording(recordings', e.id) = e]_vars

\* C3: in runs whose registry calls are serialized, deleteRecording(id) with
\* an id that is not in the registry leaves the in-memory sequence and the
\* persisted value unchanged.
C3_DeleteAbsentIsNoOp ==
  [][/\ (~overlap /\ CallReturns("delete", TRUE)
           /\ Returning.id \notin Ids(recordings))
          => recordings' = recordings
     /\ (~overlap /\ WriteServed("delete")
           /\ Writing.id \notin Ids(recordings) \cup Ids(Persisted))
          => storage' = storage]_vars

\* C4: updateRecording(id, {title: X}) changes only the title of the entry
\* whose id matches; its other fields, the other entries and the order of
\* the sequence are unchanged.
C4_UpdateChangesOnlyTitle ==
  [][CallReturns("update", TRUE) =>
       recordings' = Retitled(recordings, Returning)]_vars

\* C5: in runs whose registry calls are serialized, addRecording(r) appends
\* r as the last element of the sequence, keeps the earlier entries in their
\* order, and persists the whole updated sequence under the storage key.
C5_AddAppends ==
  [][(~overlap /\ CallReturns("add", TRUE)) =>
       /\ recordings' = Append(recordings, Returning.rec)
       /\ Persisted' = recordings']_vars

\* C6: when no registry call is in flight, every entry of the in-memory
\* sequence is also an entry of the persisted sequence.
C6_MemoryIsPersisted ==
  Quiescent => Entries(recordings) \subseteq Entries(Persisted)

\* an add has returned and its recording is in memory and in storage
C6_Witness ==
  /\ Quiescent /\ last.kind = "add" /\ last.ok
  /\ last.rec \in Entries(recordings)

\* C7 as stated: when the write of a call fails, the in-memory sequence
\* is the mutated sequence of that call (advanced, not rolled back).
C7_AdvancedOnFailure ==
  [][\A k \in Kinds :
       CallReturns(k, FALSE) => recordings' = Returning.updated]_vars

\* C7 amended: when the write of a call fails, the call leaves the
\* in-memory sequence as it was before the call returned, and the failed
\* write leaves the stored value as it was.
C7_UnchangedOnFailure ==
  [][\A k \in Kinds :
       /\ CallReturns(k, FALSE) => recordings' = recordings
       /\ (WriteServed(k) /\ ~cbQ'[Len(cbQ')].ok) => storage' = storage]_vars

\* an add whose write failed has returned and its recording is in neither
C7_Witness ==
  /\ last.kind = "add" /\ last.promise = "resolved" /\ ~last.ok
  /\ last.rec \notin Entries(recordings)
  /\ last.rec \notin Entries(Persisted)

\* C8: a call whose write failed is reported to its caller as a failure:
\* its promise rejects, and handleRename shows its failure notice.
C8_FailureReported ==
  (last.promise # "none" /\ ~last.ok) =>
     /\ last.promise = "rejected"
     /\ last.kind = "update" => notice = "renameFailed"

\* C9: when a deleteRecording(id) call returns, id is absent from the
\* in-memory sequence exactly if it is absent from the persisted sequence.
C9_DeleteAtomic ==
  [][\A okFlag \in BOOLEAN : CallReturns("delete", okFlag) =>
       (Returning.id \in Ids(recordings')
          <=> Returning.id \in Ids(Persisted'))]_vars

\* C10: when every registry call is issued after the initial load and the
\* calls before it have returned, no update is lost: with no call in
\* flight, the in-memory and the persisted sequence are the loaded sequence
\* with the successful calls applied in issue order.
C10_NoLostUpdate ==
  (~overlap /\ Quiescent /\ loaded /\ last.promise = "resolved") =>
     /\ recordings = expected
     /\ last.ok => Persisted = expected

\* C11: a sequence saved by a successful write is read back by a load as
\* the same sequence, field for field and in the same order.
C11_RoundTrip ==
  [][\A k \in Kinds :
       (WriteServed(k) /\ cbQ'[Len(cbQ')].ok) =>
          Loaded([ok |-> TRUE, value |-> storage'], << >>) = Writing.updated]_vars

\* a renamed entry was saved and the store reads back as the sequence in memory
C11_Witness ==
  /\ last.kind = "update" /\ last.ok /\ Quiescent
  /\ storage.kind = "json"
  /\ Loaded([ok |-> TRUE, value |-> storage], << >>) = recordings
  /\ \E e \in Entries(recordings) : e.title \in Titles

Steps(t) == \A u \in tasks' : u.n = t.n => u.pc # t.pc

\* the state App displays and the handles it tracks
Display ==
  <<recording, recordedURI, sound, isPlaying, isSending, isLoading,
    transcription, analysis, currentRecordingTitle>>

Uploads == {t \in tasks : t.kind = "upload"}

\* C13: at most one capture handle is open at any time.
C13_OneCapture == Cardinality(captures) <= 1

\* C14: at most one playback handle is open at any time.
C14_OnePlayback == Cardinality(sounds) <= 1

\* C15: a start request whose permission is denied changes nothing of the
\* controller state, opens no handle and shows the notice.
C15_DenialChangesNothing ==
  [][\A t \in tasks :
       (t.kind = "start" /\ t.pc = "permission" /\ Steps(t)
          /\ \A u \in tasks' : u.n # t.n)
       => /\ UNCHANGED <<Display, captures, sounds, playing>>
          /\ alert' = "permission"]_vars

\* a start request made after a denial is capturing
C15_Witness ==
  /\ returned = "start:capturingAfterDenial"
  /\ recording # 0 /\ recording \in captures

Leftover ==
  \/ (transcription # 0 \/ analysis # 0) /\ origin.text # session
  \/ currentRecordingTitle # NoTitle /\ origin.title # session
  \/ sound # 0 /\ origin.sound # session
  \/ \E s \in sounds :
       /\ s # sound
       /\ \A u \in tasks : ~(u.snd = s /\ u.pc = "loaded" /\ u.ses = session)

\* C17: at the step that makes the controller Capturing, nothing of an
\* earlier capture session is left: no transcription, analysis or title of
\* it is displayed and no playback handle of it is tracked or open.
C17_CapturingIsReset ==
  [][(recording = 0 /\ recording' # 0) => ~Leftover']_vars

\* C18: a step of an upload or of a playback start that was begun in an
\* earlier capture session writes neither transcription, analysis, the
\* playback handle nor the playing flag.
C18_StaleCompletionIgnored ==
  [][\A t \in tasks :
       (t.kind \in {"upload", "play"} /\ t.ses # session /\ Steps(t))
       => UNCHANGED <<transcription, analysis, sound, isPlaying>>]_vars

\* C19: after playback has reached the end of the audio and until the next
\* play request, no playback handle is tracked and the playing flag is
\* false.
C19_EndReleasesPlayback ==
  ended => (sound = 0 /\ ~isPlaying)

\* C20: at most one upload is in flight at any time, and isLoading is set
\* exactly while one is, so that a call made meanwhile is ignored.
C20_OneUpload ==
  /\ Cardinality(Uploads) <= 1
  /\ isLoading <=> Uploads # {}

\* a call was ignored while an upload was in flight
C20_Witness == returned = "send:ignored" /\ Cardinality(Uploads) = 1

\* C21: when the endpoint answers with a success status and a body that
\* carries a transcription and an analysis, the upload sets exactly these
\* two texts and shows no alert.
C21_UploadYields ==
  [][\A t \in Uploads :
       (t.pc = "body" /\ t.resp.ok /\ t.resp.transcription # 0
          /\ t.resp.analysis # 0 /\ Steps(t))
       => /\ transcription' = t.resp.transcription
          /\ analysis' = t.resp.analysis
          /\ alert' = alert]_vars

C21_Witness ==
  /\ returned = "upload:ok" /\ alert = "none"
  /\ transcription = TranscriptionOf(recordedURI)
  /\ analysis = AnalysisOf(recordedURI)

\* C22: when the endpoint answers with a non-success status, or with a
\* success status and a body that lacks the transcription or the analysis,
\* the upload shows an alert and leaves transcription and analysis cleared.
C22_UploadFails ==
  [][\A t \in Uploads :
       (t.pc = "body" /\ Steps(t)
          /\ (~t.resp.ok \/ t.resp.transcription = 0 \/ t.resp.analysis = 0))
       => /\ alert' = "analyzeFailed"
          /\ transcription' = 0 /\ analysis' = 0]_vars

C22_Witness ==
  /\ returned \in {"upload:status", "upload:malformed"}
  /\ alert = "analyzeFailed" /\ transcription = 0 /\ analysis = 0

\* C23: no request is issued for an audio file that is not on the device:
\* an upload whose file is absent never awaits fetch.
C23_FileCheckedFirst ==
  \A t \in Uploads : t.pc = "fetch" => t.file

\* C25: addRecording is called only by stopRecording, after the capture of
\* its closure was stopped and unloaded and when getURI gave a uri, and the
\* entry it adds carries that uri.
C25_AddOnlyFromStop ==
  [][nOps' # nOps =>
       \E t \in tasks :
         /\ t.kind = "stop" /\ t.pc = "status" /\ Steps(t)
         /\ t.rec # 0 /\ t.rec \notin captures
         /\ t.uri # 0
         /\ ops'[nOps'].kind = "add" /\ ops'[nOps'].rec.uri = t.uri]_vars

C25_Witness == returned = "stop:added" /\ nOps > 0 /\ recordedURI # 0

\* a handler of App returns in this step
Ends == \E t \in tasks : \A u \in tasks' : u.n # t.n

\* ways a handler ends when one of its asynchronous operations has failed
Failed ==
  {"start:failed", "stop:failed", "stop:unloaded", "play:failed",
   "toggle:rejected", "upload:thrown", "upload:status", "upload:malformed"}

\* C26: a handler that ends because one of its asynchronous operations has
\* failed has caught the failure and an alert has been shown.
C26_FailuresNoticed ==
  [][(Ends /\ returned' \in Failed)
       => (returned' # "toggle:rejected" /\ alert' # "none")]_vars

\* C27: when a handler ends on a failed capture creation, capture stop,
\* playback creation or play, the controller tracks no capture handle and
\* its playing flag is false.
C27_StableAfterFailure ==
  [][(Ends /\ returned' \in {"start:failed", "stop:failed", "play:failed"})
       => (recording' = 0 /\ ~isPlaying')]_vars

\* C28: an upload that has started leads to a state with isLoading and
\* isSending cleared, whatever the network call returns or throws.
C28_UploadEnds == (Uploads # {}) ~> (~isLoading /\ ~isSending)

C28_Witness ==
  returned = "upload:thrown" /\ Uploads = {} /\ ~isLoading /\ ~isSending

\* C30: stopRecording calls addRecording at most once for a capture handle,
\* also when a second stop was requested while the first was awaiting.
C30_OneEntryPerCapture ==
  [][\A t \in tasks :
       (t.kind = "stop" /\ t.pc = "status" /\ Steps(t) /\ nOps' # nOps)
       => t.rec \notin added]_vars

\* the second of two overlapping stop requests was rejected after the first
\* had added the recording
C30_Witness == returned = "stop:unloaded" /\ added # {}

\* C29: once the initial load and every registry call have returned, each
\* recording that the load read from storage and that no successful call
\* has deleted is in the in-memory and in the persisted sequence, also when
\* a call was issued before the load had returned.
C29_StartupKept ==
  (loaded /\ Quiescent /\ nativeQ = << >> /\ cbQ = << >>) =>
     \A id \in Ids(expected) \cap 1..MaxStored :
        id \in Ids(recordings) /\ id \in Ids(Persisted)

\* recordings with a deleteRecording call in progress
Deleting ==
  {ops[i].id : i \in {j \in OpIds : ops[j].kind = "delete"
                                     /\ ops[j].pc = "writing"}}

\* C24: while deleteRecording(id) is in progress no playback handle of the
\* item of that recording is open: the handle was released before the call
\* was issued, and none that was being created at the tap opens afterwards.
C24_ReleasedBeforeDelete == \A s \in itemSounds : s.id \notin Deleting

\* loaded sounds of items that no mounted item tracks
ItemUntracked == {s \in itemSounds : ~s.mounted \/ itemSound[s.id] # s.h}

================================================================================
